---- MODULE Spec2Model ----
(***************************************************************************)
(* Fixed-block memory pool allocator (Allocator) with an intrusive free    *)
(* list, its debug-build corruption checks, and the size-class dispatcher  *)
(* (SlabAllocator), modelled from src/src/allocator.cpp,                   *)
(* src/src/allocator_slab.cpp and src/include/allocator.h.                 *)
(*                                                                         *)
(* Pointers are integer addresses, NULL is 0.  The heap is a function from *)
(* the address of a block slot to the Block header stored there.  Both     *)
(* builds are modelled: the variable debug is the DEBUG compile flag.      *)
(* size_t is an unsigned integer of SizeBits bits: sums and products of    *)
(* sizes wrap.                                                             *)
(***************************************************************************)
EXTENDS Integers, Sequences, FiniteSets, TLC

VARIABLES
    debug,          \* the build: TRUE when compiled with -DDEBUG
    life,           \* per Allocator object: "none", "live", "threw", "destroyed"
    ctor,           \* per Allocator object: the arguments it was constructed with
    obj,            \* per Allocator object: m_Initialized, m_MemoryPool, m_PoolId
    mutex,          \* per Allocator object: m_Mutex, the thread holding it or NoThread
    mem,            \* the heap: block address -> Block header (and rear canary)
    slab,           \* the SlabAllocator object: m_Slabs, a sequence of Allocator ids
    pc,             \* per thread: position inside the call it is running
    call,           \* per thread: arguments and locals of the running call
    held,           \* per thread: the blocks received and not yet freed, each with the
                    \* size it was requested with (0 for a direct allocate())
    abort_msg,      \* the diagnostic of std::abort() (or of a fault), "" while running
    log,            \* per pool: results of the allocate() calls made before any free()
    fresh,          \* per pool: a standalone pool on which no free() has been called yet
    last_freed,     \* per pool: the pointer pushed by free() when that was the last operation
    double_return,  \* allocate() returned a pointer that a caller still held
    misuse,         \* some free() was given a non-null pointer its caller did not hold
                    \* (a run makes at most one such call)
    phase,          \* per pool, under valid use: "exhausted" once allocate() returned
                    \* empty with every block in use, "drained" once every block
                    \* outstanding since then was freed, "broken" if allocate()
                    \* returned empty while a block was free; "off" when not followed
    tainted,        \* the blocks whose canary a caller overwrote since allocate()
                    \* last handed them out
    source          \* per pool, the calls made on the memory source: the number
                    \* of std::malloc calls, the size the last one asked for,
                    \* the number of std::free calls

vars == <<debug, life, ctor, obj, mutex, mem, slab, pc, call, held, abort_msg,
          log, fresh, last_freed, double_return, misuse, phase, tainted, source>>

----------------------------------------------------------------------------
(* Bounds of the model *)

\* number of client threads sharing the pools
NumThreads == 2
\* largest block_count handed to a standalone Allocator
MaxCount == 3
\* largest block_count of the pool the threads of SpecMT share
MaxSharedCount == 2
\* blocks per size class of the dispatcher in the model (100 in the code)
SlabBlockCount == 1
\* largest block_count of each of the two pools of SpecPair
MaxPairCount == 1
\* largest block_count of the pool the threads of SpecMTFair share
MaxFairCount == 1
\* width of size_t in the model, in bits (64 on the targets of the code)
SizeBits == 16
\* blocks the client of SpecWrap holds at most
MaxWrapHeld == 2

Threads == 1..NumThreads
NoThread == 0
NULL == 0

\* Allocator objects: 1..4 are the dispatcher's size classes, 1 also serves
\* as the standalone pool of Spec
AllPools == 1..4

\* payload sizes handed to a standalone constructor
CtorSizes == {0, 1, 8, 20}
CtorCounts == 0..MaxCount

----------------------------------------------------------------------------
(* Layout: struct Block, alignment, stride *)

\* sizeof(Block* next)
PtrSize == 8
\* alignof(Block): the alignment of its pointer member
AlignofBlock == 8
\* sizeof(uint32_t), the rear canary word
CanaryWordSize == 4
\* constexpr uint32_t CANARY_VALUE = 0xDEADC0DE (kept as a token: canaries are
\* only stamped and compared); NoCanary stands for the field a release build lacks
CANARY_VALUE == "0xDEADC0DE"
NoCanary == "none"

\* sizeof(Block): next only; in debug builds next, is_free, pool_id,
\* canary_front (8 + 1 + 3 padding + 4 + 4 = 20, padded to 24)
SizeofBlock(dbg) == IF dbg THEN 24 ELSE PtrSize

\* faulty variant: the size is not rounded up
align_up_NoRound(size) == size

\* size_t holds the values 0 .. SizeMod - 1; its arithmetic is modulo SizeMod
SizeMod == 2 ^ SizeBits
SizeAdd(a, b) == (a + b) % SizeMod
SizeMul(a, b) == (a * b) % SizeMod

\* Allocator::align_up: (size + alignment - 1) & ~(alignment - 1)
align_up(size) ==
    LET alignment == AlignofBlock
        x == SizeAdd(size, alignment - 1)
    IN  x - (x % alignment)

\* the stride computed by the constructor
RawBlockSize(dbg, payload_size) ==
    LET raw == SizeAdd(SizeofBlock(dbg), payload_size)
        raw2 == IF dbg THEN SizeAdd(raw, CanaryWordSize) ELSE raw
    IN  align_up(raw2)

\* address std::malloc returns for the buffer of pool p (buffers are disjoint)
MallocBase == 4096
BufferAddr(p) == p * MallocBase

\* address of the Allocator object p itself (this)
ThisAddr(p) == 100 + p

\* an address of a local variable of the caller, outside every buffer
StackAddr == 64

----------------------------------------------------------------------------
(* The Allocator object *)

\* a null std::unique_ptr<MemoryPool> is the empty sequence, an owning one
\* is the one-element sequence holding the MemoryPool
NullPool == <<>>

NoObject == [m_Initialized |-> FALSE, m_MemoryPool |-> NullPool, m_PoolId |-> 0]
\* no call was made on the memory source
NoSource == [requests |-> 0, bytes |-> 0, releases |-> 0]

NoCtor == [block_size |-> 0, block_count |-> 0, new_ok |-> FALSE, malloc_ok |-> FALSE]

HasPool(p) == obj[p].m_MemoryPool # NullPool
MP(p) == obj[p].m_MemoryPool[1]

\* Allocator::is_initialized
is_initialized(p) == obj[p].m_Initialized

\* Allocator::block_size (defined only while m_MemoryPool is not null)
block_size(p) == MP(p).block_size

\* address of slot i of a buffer
SlotAddr(start, stride, i) == start + i * stride

\* the block slots of pool p
Slots(p) ==
    IF HasPool(p) /\ MP(p).memory # NULL
    THEN {SlotAddr(MP(p).memory, MP(p).block_size, i) : i \in 0..(MP(p).block_count - 1)}
    ELSE {}

\* allocate(): reinterpret_cast<char*>(block) + sizeof(Block)
PayloadOf(block) == block + SizeofBlock(debug)

\* free(): raw_ptr - sizeof(Block)
BlockOf(ptr) == ptr - SizeofBlock(debug)

PayloadAddrs(p) == {PayloadOf(b) : b \in Slots(p)}

\* a Block header as the constructor writes it
FreshBlock(dbg, next, pool_id) ==
    [next |-> next,
     is_free |-> dbg,
     pool_id |-> IF dbg THEN pool_id ELSE 0,
     canary_front |-> IF dbg THEN CANARY_VALUE ELSE NoCanary,
     rear |-> IF dbg THEN CANARY_VALUE ELSE NoCanary]

\* faulty variant: the loop stops one slot early: i < block_count - 1
CtorLoopBound_OffByOne(block_count) == block_count - 1

\* number of slots the constructor threads into the free list
CtorLoopBound(block_count) == block_count

\* the constructor's loop: for (i = 0; i < block_count; i++) thread slot i
\* in front of the free list; yields the heap and the free-list head
RECURSIVE CtorLoop(_, _, _, _, _, _, _)
CtorLoop(i, n, start, stride, pool_id, heap, head) ==
    IF i >= n THEN [heap |-> heap, head |-> head]
    ELSE LET block == SlotAddr(start, stride, i)
             h2 == [a \in (DOMAIN heap) \cup {block} |->
                      IF a = block THEN FreshBlock(debug, head, pool_id) ELSE heap[a]]
         IN  CtorLoop(i + 1, n, start, stride, pool_id, h2, block)

\* faulty variant: only the block size is checked: if (block_size == 0)
CtorRejects_SizeOnly(bs, bc) == bs = 0

\* the constructor's argument check: if (block_size == 0 || block_count == 0)
CtorRejects(bs, bc) == bs = 0 \/ bc = 0

\* the argument of std::malloc: m_MemoryPool->block_size * block_count
MallocArg(stride, bc) == SizeMul(stride, bc)

\* the calls on the memory source after std::malloc was asked for bytes
Requested(src, bytes) == [src EXCEPT !.requests = @ + 1, !.bytes = bytes]

\* the calls on the memory source after std::free was given the buffer
Released(src) == [src EXCEPT !.releases = @ + 1]

\* the constructor's loop writes outside the bytes bytes it obtained at
\* start: a header that ends past the buffer, or (debug) a rear canary word
\* past the buffer or, with a stride below the word, before the slot
CtorOverruns(start, stride, bc, bytes) ==
    \E i \in 0..(bc - 1) :
        LET block == SlotAddr(start, stride, i) IN
        \/ block + SizeofBlock(debug) > start + bytes
        \/ debug /\ block + stride > start + bytes
        \/ debug /\ stride < CanaryWordSize

\* the Allocator a successful or failed construction leaves behind
\* (mallocOk: std::malloc returned a buffer)
Constructed(p, bs, bc, mallocOk) ==
    IF CtorRejects(bs, bc)
    THEN [object |-> [NoObject EXCEPT !.m_Initialized = FALSE], heap |-> mem]
    ELSE LET stride == RawBlockSize(debug, bs)
             pool0 == [memory |-> NULL, free_list |-> NULL, block_size |-> stride,
                       block_count |-> bc, payload_size |-> bs]
         IN  IF ~mallocOk
             THEN [object |-> [m_Initialized |-> FALSE, m_MemoryPool |-> <<pool0>>,
                               m_PoolId |-> 0],
                   heap |-> mem]
             ELSE LET start == BufferAddr(p)
                      pid == IF debug THEN ThisAddr(p) ELSE 0
                      r == CtorLoop(0, CtorLoopBound(bc), start, stride, pid, mem, NULL)
                  IN  [object |-> [m_Initialized |-> TRUE,
                                   m_MemoryPool |-> <<[pool0 EXCEPT !.memory = start,
                                                                    !.free_list = r.head]>>,
                                   m_PoolId |-> pid],
                       heap |-> r.heap]

----------------------------------------------------------------------------
(* Thread-local call state *)

NoCall == [op |-> "none", pool |-> 0, ptr |-> NULL, block |-> NULL, size |-> 0]

NoAbort == ""
Running == abort_msg = NoAbort

\* clients start a call while the process runs and until a block has been
\* handed out twice
MayCall(t) == Running /\ pc[t] = "idle" /\ ~double_return

\* faulty variant: allocate() and free() run without the lock_guard
LockFree_NoMutex(p) == TRUE

\* std::lock_guard<std::mutex> lock(m_Mutex) can be taken
LockFree(p) == mutex[p] = NoThread

\* faulty variant: the lock is kept when the call returns
Unlock_Kept(p) == mutex

\* the lock_guard goes out of scope at the return: m_Mutex is unlocked
Unlock(p) == [mutex EXCEPT ![p] = NoThread]

----------------------------------------------------------------------------
(* Free list, as the pool's memory holds it *)

\* the header read at address a; the heap holds the headers of the slots only,
\* and both checks of free() precede every header read, so the other case is
\* never taken by the code
Header(heap, a) ==
    IF a \in DOMAIN heap THEN heap[a]
    ELSE [next |-> NULL, is_free |-> FALSE, pool_id |-> 0,
          canary_front |-> NoCanary, rear |-> NoCanary]

\* the heap after the header at address a is overwritten (a write elsewhere
\* lands in payload bytes, which the heap does not hold)
Store(heap, a, hdr) ==
    IF a \in DOMAIN heap THEN [heap EXCEPT ![a] = hdr] ELSE heap

\* the blocks met when following next from b, for at most fuel steps
RECURSIVE Walk(_, _, _)
Walk(heap, b, fuel) ==
    IF b = NULL \/ fuel = 0 \/ b \notin DOMAIN heap THEN <<>>
    ELSE <<b>> \o Walk(heap, heap[b].next, fuel - 1)

Range(s) == {s[i] : i \in DOMAIN s}

\* the free list of pool p from its head, cut after block_count + 1 blocks
FreeListSeq(p) ==
    IF HasPool(p) THEN Walk(mem, MP(p).free_list, MP(p).block_count + 1) ELSE <<>>

FreeListSet(p) == Range(FreeListSeq(p))

\* the pointers thread t holds
HeldPtrs(t) == {h.ptr : h \in held[t]}

\* the blocks of pool p some caller holds
InUse(p) == {b \in Slots(p) : \E t \in Threads : PayloadOf(b) \in HeldPtrs(t)}

----------------------------------------------------------------------------
(* Construction and destruction *)

Init ==
    /\ debug \in BOOLEAN
    /\ life = [p \in AllPools |-> "none"]
    /\ ctor = [p \in AllPools |-> NoCtor]
    /\ obj = [p \in AllPools |-> NoObject]
    /\ mutex = [p \in AllPools |-> NoThread]
    /\ mem = <<>>
    /\ slab = <<>>
    /\ pc = [t \in Threads |-> "idle"]
    /\ call = [t \in Threads |-> NoCall]
    /\ held = [t \in Threads |-> {}]
    /\ abort_msg = NoAbort
    /\ log = [p \in AllPools |-> <<>>]
    /\ fresh = [p \in AllPools |-> TRUE]
    /\ last_freed = [p \in AllPools |-> NULL]
    /\ double_return = FALSE
    /\ misuse = FALSE
    /\ phase = [p \in AllPools |-> "none"]
    /\ tainted = {}
    /\ source = [p \in AllPools |-> NoSource]

\* Allocator::Allocator(block_size, block_count); newOk: operator new inside
\* std::make_unique<MemoryPool>() succeeded, otherwise std::bad_alloc leaves
\* the constructor.  When the loop writes outside the buffer the behaviour is
\* undefined: the process faults, or the writes land and the constructor
\* completes.
Construct(p, bs, bc, newOk, mallocOk) ==
    /\ Running
    /\ life[p] = "none"
    /\ ctor' = [ctor EXCEPT ![p] = [block_size |-> bs, block_count |-> bc,
                                    new_ok |-> newOk, malloc_ok |-> mallocOk]]
    /\ IF ~CtorRejects(bs, bc) /\ ~newOk
       THEN /\ life' = [life EXCEPT ![p] = "threw"]
            /\ UNCHANGED <<obj, mem, source, abort_msg>>
       ELSE LET c == Constructed(p, bs, bc, mallocOk)
                stride == RawBlockSize(debug, bs)
                bytes == MallocArg(stride, bc)
            IN  /\ source' = IF CtorRejects(bs, bc) THEN source
                              ELSE [source EXCEPT ![p] = Requested(@, bytes)]
                /\ \/ /\ life' = [life EXCEPT ![p] = "live"]
                      /\ obj' = [obj EXCEPT ![p] = c.object]
                      /\ mem' = c.heap
                      /\ UNCHANGED abort_msg
                   \/ /\ ~CtorRejects(bs, bc)
                      /\ mallocOk
                      /\ CtorOverruns(BufferAddr(p), stride, bc, bytes)
                      /\ abort_msg' = "fault: constructor wrote outside the buffer"
                      /\ UNCHANGED <<life, obj, mem>>
    /\ UNCHANGED <<debug, tainted, phase, mutex, slab, pc, call, held, log, fresh,
                   last_freed, double_return, misuse>>

\* faulty variant: the buffer is kept while a caller holds a block of it
OwnsBuffer_Unused(p) == HasPool(p) /\ MP(p).memory # NULL /\ InUse(p) = {}

\* the destructor's test: if (m_MemoryPool && m_MemoryPool->memory)
OwnsBuffer(p) == HasPool(p) /\ MP(p).memory # NULL

\* Allocator::~Allocator, called while no thread is inside a call on p
Destroy(p) ==
    /\ Running
    /\ life[p] = "live"
    /\ \A t \in Threads : pc[t] = "idle"
    /\ life' = [life EXCEPT ![p] = "destroyed"]
    /\ IF OwnsBuffer(p)
       THEN /\ mem' = [a \in (DOMAIN mem) \ Slots(p) |-> mem[a]]
            /\ obj' = [obj EXCEPT ![p].m_MemoryPool = <<[MP(p) EXCEPT !.memory = NULL]>>,
                                  ![p].m_Initialized = FALSE]
            /\ source' = [source EXCEPT ![p] = Released(@)]
       ELSE /\ mem' = mem
            /\ obj' = [obj EXCEPT ![p].m_Initialized = FALSE]
            /\ UNCHANGED source
    /\ UNCHANGED <<debug, tainted, phase, ctor, mutex, slab, pc, call, held, abort_msg, log,
                   fresh, last_freed, double_return, misuse>>

----------------------------------------------------------------------------
(* Allocator::allocate *)

\* the allocate() calls of a fresh pool are logged up to the one after exhaustion
LogAppend(p, ptr) ==
    IF fresh[p] /\ Len(log[p]) <= ctor[p].block_count
    THEN [log EXCEPT ![p] = Append(@, ptr)]
    ELSE log

\* a thread enters allocate() on pool p and reaches the lock_guard; size is
\* the size asked of the dispatcher, 0 for a direct call
EnterAllocate(t, p, size) ==
    /\ MayCall(t)
    /\ life[p] = "live"
    /\ pc' = [pc EXCEPT ![t] = "alloc_lock"]
    /\ call' = [call EXCEPT ![t] = [NoCall EXCEPT !.op = "allocate", !.pool = p,
                                                  !.size = size]]
    /\ UNCHANGED <<debug, source, tainted, phase, life, ctor, obj, mutex, mem, slab, held, abort_msg, log,
                   fresh, last_freed, double_return, misuse>>

\* a client calls allocate() on pool p directly
CallAllocate(t, p) == EnterAllocate(t, p, 0)

\* faulty variant: the last free block is never handed out:
\* if (free_list == nullptr || free_list->next == nullptr) return nullptr
AllocReturnsEmpty_LastBlock(p) ==
    \/ ~obj[p].m_Initialized
    \/ ~HasPool(p)
    \/ MP(p).free_list = NULL
    \/ Header(mem, MP(p).free_list).next = NULL

\* allocate() returns nullptr without popping: pool unready or free list empty
AllocReturnsEmpty(p) ==
    \/ ~obj[p].m_Initialized
    \/ ~HasPool(p)
    \/ MP(p).free_list = NULL

\* the phase of pool p after an allocate() on it returned empty
PhaseOnEmpty(p) ==
    IF phase[p] = "off" \/ misuse \/ ~obj[p].m_Initialized \/ ~HasPool(p) THEN phase[p]
    ELSE IF InUse(p) = Slots(p) THEN "exhausted"
    ELSE "broken"

\* the thread takes the lock and runs allocate() up to block = free_list;
\* the early returns release the lock again
AllocEnter(t) ==
    LET p == call[t].pool IN
    /\ Running
    /\ pc[t] = "alloc_lock"
    /\ LockFree(p)
    /\ IF AllocReturnsEmpty(p)
       THEN /\ pc' = [pc EXCEPT ![t] = "idle"]
            /\ call' = [call EXCEPT ![t] = NoCall]
            /\ log' = LogAppend(p, NULL)
            /\ last_freed' = [last_freed EXCEPT ![p] = NULL]
            /\ phase' = [phase EXCEPT ![p] = PhaseOnEmpty(p)]
            /\ UNCHANGED mutex
       ELSE /\ pc' = [pc EXCEPT ![t] = "alloc_pop"]
            /\ call' = [call EXCEPT ![t].block = MP(p).free_list]
            /\ mutex' = [mutex EXCEPT ![p] = t]
            /\ UNCHANGED <<log, last_freed, phase>>
    /\ UNCHANGED <<debug, source, tainted, life, ctor, obj, mem, slab, held, abort_msg, fresh,
                   double_return, misuse>>

\* faulty variant: the head is not advanced: m_MemoryPool->free_list = block
PopHead_NoAdvance(heap, block) == block

\* the free-list head after the pop: m_MemoryPool->free_list = block->next
PopHead(heap, block) == Header(heap, block).next

\* debug check of allocate(): if (!block->is_free) abort
PoppedNotFree(heap, block) == debug /\ ~Header(heap, block).is_free

\* faulty variant: the free flag is not cleared when the block is handed out
Stamped_FlagKept(b) ==
    IF debug
    THEN [b EXCEPT !.canary_front = CANARY_VALUE, !.rear = CANARY_VALUE]
    ELSE b

\* the header of the block allocate() hands out (debug: cleared flag, both
\* canaries stamped again)
Stamped(b) ==
    IF debug
    THEN [b EXCEPT !.is_free = FALSE, !.canary_front = CANARY_VALUE, !.rear = CANARY_VALUE]
    ELSE b

\* the thread pops the block it read, runs the debug checks and returns the
\* payload address, releasing the lock
AllocPop(t) ==
    LET p == call[t].pool
        block == call[t].block
    IN
    /\ Running
    /\ pc[t] = "alloc_pop"
    /\ obj' = [obj EXCEPT ![p].m_MemoryPool =
                  <<[MP(p) EXCEPT !.free_list = PopHead(mem, block)]>>]
    /\ IF PoppedNotFree(mem, block)
       THEN /\ abort_msg' = "Allocator corruption detected"
            /\ UNCHANGED <<mem, mutex, pc, call, held, log, last_freed, double_return,
                           tainted>>
       ELSE /\ mem' = Store(mem, block, Stamped(Header(mem, block)))
            /\ mutex' = Unlock(p)
            /\ pc' = [pc EXCEPT ![t] = "idle"]
            /\ call' = [call EXCEPT ![t] = NoCall]
            /\ held' = [held EXCEPT ![t] =
                          @ \cup {[ptr |-> PayloadOf(block), size |-> call[t].size]}]
            /\ double_return' =
                 (double_return \/ \E u \in Threads : PayloadOf(block) \in HeldPtrs(u))
            /\ log' = LogAppend(p, PayloadOf(block))
            /\ last_freed' = [last_freed EXCEPT ![p] = NULL]
            /\ tainted' = tainted \ {block}
            /\ abort_msg' = abort_msg
    /\ UNCHANGED <<debug, source, phase, life, ctor, slab, fresh, misuse>>

----------------------------------------------------------------------------
(* Allocator::free *)

\* pointers a caller may hand to free() on pool p: null, every payload
\* address of the pool (held by the caller, held by another thread, or
\* already free), a payload address + 1, the start of the buffer, the end of
\* the buffer, one header past the end, and the address of a local variable
FreeArgs(p) ==
    {NULL, StackAddr} \cup PayloadAddrs(p) \cup
    (IF HasPool(p) /\ MP(p).memory # NULL
     THEN LET mem_start == MP(p).memory
              mem_end == mem_start + SizeMul(MP(p).block_size, MP(p).block_count)
          IN  {PayloadOf(mem_start) + 1, mem_start, mem_end, PayloadOf(mem_end)}
     ELSE {BufferAddr(p)})

\* free(ptr) on pool p is valid use by thread t: ptr is null or a block of
\* the pool that t holds
ValidFree(t, p, ptr) == ptr = NULL \/ ptr \in (HeldPtrs(t) \cap PayloadAddrs(p))

\* a thread enters free(ptr) on pool p: a null ptr returns at once, any
\* other reaches the lock_guard; size is the size given to the dispatcher, 0
\* for a direct call
EnterFree(t, p, ptr, size) ==
    /\ MayCall(t)
    /\ life[p] = "live"
    /\ ValidFree(t, p, ptr) \/ ~misuse
    /\ fresh' = [fresh EXCEPT ![p] = FALSE]
    /\ log' = [log EXCEPT ![p] = <<>>]
    /\ misuse' = (misuse \/ ~ValidFree(t, p, ptr))
    /\ IF ptr = NULL
       THEN UNCHANGED <<pc, call>>
       ELSE /\ pc' = [pc EXCEPT ![t] = "free_lock"]
            /\ call' = [call EXCEPT ![t] = [NoCall EXCEPT !.op = "free", !.pool = p,
                                                          !.ptr = ptr, !.size = size]]
    /\ UNCHANGED <<debug, source, tainted, phase, life, ctor, obj, mutex, mem, slab, held, abort_msg,
                   last_freed, double_return>>

\* a client calls free(ptr) on pool p directly
CallFree(t, p, ptr) == EnterFree(t, p, ptr, 0)

\* faulty variant: the unready pool is not skipped
FreeIgnores_Never(p) == FALSE

\* faulty variant: only the pool pointer is tested: if (!m_MemoryPool) return
FreeIgnores_PoolOnly(p) == ~HasPool(p)

\* free() returns without effect: if (!m_Initialized || !m_MemoryPool) return
FreeIgnores(p) == ~obj[p].m_Initialized \/ ~HasPool(p)

\* faulty variant: only the lower end of the buffer is checked
OutOfRange_LowerOnly(p, block_ptr) == block_ptr < MP(p).memory

\* if (block_ptr < mem_start || block_ptr >= mem_end): not from this pool
OutOfRange(p, block_ptr) ==
    LET mem_start == MP(p).memory
        mem_end == mem_start + SizeMul(MP(p).block_size, MP(p).block_count)
    IN  block_ptr < mem_start \/ block_ptr >= mem_end

\* faulty variant: the slot-boundary check is missing
Misaligned_Unchecked(p, block_ptr) == FALSE

\* if (offset % block_size != 0): not on a slot boundary
Misaligned(p, block_ptr) ==
    LET offset == block_ptr - MP(p).memory
    IN  offset % MP(p).block_size # 0

\* debug: if (block->pool_id != m_PoolId)
WrongPool(p, heap, block) == debug /\ Header(heap, block).pool_id # obj[p].m_PoolId

\* faulty variant: the is_free check is missing
DoubleFree_Unchecked(heap, block) == FALSE

\* debug: if (block->is_free)
DoubleFree(heap, block) == debug /\ Header(heap, block).is_free

\* faulty variant: only the front canary is compared
CanarySmashed_FrontOnly(heap, block) ==
    debug /\ Header(heap, block).canary_front # CANARY_VALUE

\* debug: if (block->canary_front != CANARY_VALUE || *rear != CANARY_VALUE)
CanarySmashed(heap, block) ==
    debug /\ (Header(heap, block).canary_front # CANARY_VALUE
              \/ Header(heap, block).rear # CANARY_VALUE)

\* the checks of free() in the order of the code: the diagnostic of the
\* first one that fails, or "" when the block is accepted
FreeDiagnostic(p, heap, ptr) ==
    LET block_ptr == BlockOf(ptr) IN
    IF OutOfRange(p, block_ptr) THEN "Invalid free (pointer not from pool)"
    ELSE IF Misaligned(p, block_ptr) THEN "Invalid free (not block aligned)"
    ELSE IF WrongPool(p, heap, block_ptr) THEN "Invalid free (wrong allocator)"
    ELSE IF DoubleFree(heap, block_ptr) THEN "Double free error"
    ELSE IF CanarySmashed(heap, block_ptr) THEN "Memory corruption detected (canary smashed)"
    ELSE NoAbort

\* faulty variant: the freed block is not linked to the old head, so the
\* blocks behind it are lost
Linked_Unlinked(b, head) ==
    [b EXCEPT !.is_free = debug, !.next = NULL]

\* the header of a block free() accepted, after lines 129 and 131:
\* is_free = true (debug) and next = free_list
Linked(b, head) ==
    [b EXCEPT !.is_free = debug, !.next = head]

\* the thread takes the lock and runs free() up to block->next = free_list;
\* the early return releases the lock, a failed check aborts the process
FreeEnter(t) ==
    LET p == call[t].pool
        ptr == call[t].ptr
    IN
    /\ Running
    /\ pc[t] = "free_lock"
    /\ LockFree(p)
    /\ IF FreeIgnores(p)
       THEN /\ pc' = [pc EXCEPT ![t] = "idle"]
            /\ call' = [call EXCEPT ![t] = NoCall]
            /\ UNCHANGED <<mutex, mem, abort_msg>>
       ELSE IF FreeDiagnostic(p, mem, ptr) # NoAbort
       THEN /\ abort_msg' = FreeDiagnostic(p, mem, ptr)
            /\ UNCHANGED <<pc, call, mutex, mem>>
       ELSE /\ pc' = [pc EXCEPT ![t] = "free_push"]
            /\ call' = [call EXCEPT ![t].block = BlockOf(ptr)]
            /\ mem' = Store(mem, BlockOf(ptr),
                            Linked(Header(mem, BlockOf(ptr)), MP(p).free_list))
            /\ mutex' = [mutex EXCEPT ![p] = t]
            /\ UNCHANGED abort_msg
    /\ UNCHANGED <<debug, source, tainted, phase, life, ctor, obj, slab, held, log, fresh, last_freed,
                   double_return, misuse>>

\* faulty variant: the head is replaced only when the list is empty, so a freed block
\* is dropped behind the blocks already free
PushHead_KeepsHead(head, block) == IF head = NULL THEN block ELSE head

\* faulty variant: the head is not updated, so the freed block is lost
PushHead_Dropped(head, block) == head

\* the free-list head after the push: m_MemoryPool->free_list = block
PushHead(head, block) == block

\* the phase of pool p after free() returned the block to it
PhaseOnFree(p, block) ==
    IF phase[p] \in {"exhausted", "drained"} /\ ~misuse
    THEN IF InUse(p) \ {block} = {} THEN "drained" ELSE "exhausted"
    ELSE phase[p]

\* the thread makes the block the head of the free list and returns,
\* releasing the lock
FreePush(t) ==
    LET p == call[t].pool
        block == call[t].block
    IN
    /\ Running
    /\ pc[t] = "free_push"
    /\ obj' = [obj EXCEPT ![p].m_MemoryPool =
                  <<[MP(p) EXCEPT !.free_list = PushHead(MP(p).free_list, block)]>>]
    /\ mutex' = Unlock(p)
    /\ pc' = [pc EXCEPT ![t] = "idle"]
    /\ call' = [call EXCEPT ![t] = NoCall]
    /\ held' = [held EXCEPT ![t] = {h \in @ : h.ptr # call[t].ptr}]
    /\ last_freed' = [last_freed EXCEPT ![p] = call[t].ptr]
    /\ phase' = [phase EXCEPT ![p] = PhaseOnFree(p, block)]
    /\ UNCHANGED <<debug, source, tainted, life, ctor, mem, slab, abort_msg, log, fresh,
                   double_return, misuse>>

----------------------------------------------------------------------------
(* Writes of a caller outside its payload *)

\* the value a canary word holds after a caller wrote over it
Smashed == "smashed"

\* the two canary words of a debug-build block: canary_front ends the header,
\* right before the payload; the rear canary is the last word of the slot
CanaryFields == {"canary_front", "rear"}

\* the header after a write over one of its canary words
Overwritten(b, field) ==
    IF field = "canary_front" THEN [b EXCEPT !.canary_front = Smashed]
    ELSE [b EXCEPT !.rear = Smashed]

\* a caller writes before the start or past the end of a payload of pool p
\* and hits a canary word of block (its own block, or a neighbour that may be
\* free).  Debug builds only: a release build has no canary words, the same
\* bytes are padding or another block's link.
Overrun(t, p, block, field) ==
    /\ MayCall(t)
    /\ debug
    /\ ~misuse
    /\ life[p] = "live"
    /\ block \in Slots(p)
    /\ mem' = Store(mem, block, Overwritten(Header(mem, block), field))
    /\ tainted' = tainted \cup {block}
    /\ misuse' = TRUE
    /\ UNCHANGED <<debug, source, phase, life, ctor, obj, mutex, slab, pc, call, held,
                   abort_msg, log, fresh, last_freed, double_return>>

----------------------------------------------------------------------------
(* Accessors *)

\* faulty variant: the accessor recomputes the flag from the pool pointer:
\* m_Initialized = (m_MemoryPool != nullptr)
IsInitialized_Recomputes(p) ==
    /\ Running
    /\ life[p] = "live"
    /\ obj' = [obj EXCEPT ![p].m_Initialized = HasPool(p)]
    /\ UNCHANGED <<debug, source, tainted, phase, life, ctor, mutex, mem, slab, pc, call, held,
                   abort_msg, log, fresh, last_freed, double_return, misuse>>

\* is_initialized(): reads m_Initialized, no lock, no effect
IsInitialized(p) ==
    /\ Running
    /\ life[p] = "live"
    /\ UNCHANGED vars

\* block_size(): returns m_MemoryPool->block_size, no lock and no null check;
\* through a null m_MemoryPool the read is undefined: it faults, or it yields
\* some value and the call returns
BlockSize(p) ==
    /\ Running
    /\ life[p] = "live"
    /\ IF HasPool(p)
       THEN UNCHANGED abort_msg
       ELSE \/ abort_msg' = "fault: null m_MemoryPool dereferenced in block_size()"
            \/ UNCHANGED abort_msg
    /\ UNCHANGED <<debug, source, tainted, phase, life, ctor, obj, mutex, mem, slab, pc, call, held,
                   log, fresh, last_freed, double_return, misuse>>

----------------------------------------------------------------------------
(* Spec: one client thread on a standalone pool, under every use, valid or not *)

\* the Allocator object the clients of Spec and SpecMT use
Standalone == 1
\* the client thread of the sequential specifications
Client == 1

DoConstruct ==
    \E bs \in CtorSizes, bc \in CtorCounts, newOk \in BOOLEAN, mallocOk \in BOOLEAN :
        Construct(Standalone, bs, bc, newOk, mallocOk)
DoDestroy == Destroy(Standalone)
DoCallAllocate == CallAllocate(Client, Standalone)
DoAllocEnter == AllocEnter(Client)
DoAllocPop == AllocPop(Client)
DoCallFree == \E ptr \in FreeArgs(Standalone) : CallFree(Client, Standalone, ptr)
DoFreeEnter == FreeEnter(Client)
DoFreePush == FreePush(Client)
DoIsInitialized == IsInitialized(Standalone)
DoBlockSize == BlockSize(Standalone)
DoOverrun ==
    \E block \in Slots(Standalone), field \in CanaryFields :
        Overrun(Client, Standalone, block, field)

Next ==
    \/ DoConstruct
    \/ DoDestroy
    \/ DoCallAllocate
    \/ DoAllocEnter
    \/ DoAllocPop
    \/ DoCallFree
    \/ DoFreeEnter
    \/ DoFreePush
    \/ DoIsInitialized
    \/ DoBlockSize
    \/ DoOverrun

Spec == Init /\ [][Next]_vars

----------------------------------------------------------------------------
(* SpecMT: NumThreads threads share the standalone pool; each frees only    *)
(* blocks it holds                                                          *)

\* payload size of the shared pool
SharedSize == 128

MTConstruct ==
    \E bc \in 1..MaxSharedCount, mallocOk \in BOOLEAN :
        Construct(Standalone, SharedSize, bc, TRUE, mallocOk)
MTCallAllocate == \E t \in Threads : CallAllocate(t, Standalone)
MTAllocEnter == \E t \in Threads : AllocEnter(t)
MTAllocPop == \E t \in Threads : AllocPop(t)
MTCallFree ==
    \E t \in Threads : \E ptr \in HeldPtrs(t) \cup {NULL} : CallFree(t, Standalone, ptr)
MTFreeEnter == \E t \in Threads : FreeEnter(t)
MTFreePush == \E t \in Threads : FreePush(t)

NextMT ==
    \/ MTConstruct
    \/ MTCallAllocate
    \/ MTAllocEnter
    \/ MTAllocPop
    \/ MTCallFree
    \/ MTFreeEnter
    \/ MTFreePush

SpecMT == Init /\ [][NextMT]_vars

\* fair scheduling: a thread inside the lock keeps running, and a thread at
\* the lock_guard gets the lock if the lock is free again and again
FairThreads ==
    \A t \in Threads :
        /\ SF_vars(AllocEnter(t))
        /\ SF_vars(FreeEnter(t))
        /\ WF_vars(AllocPop(t))
        /\ WF_vars(FreePush(t))

\* the shared pool of the fair specification
FairConstruct ==
    \E bc \in 1..MaxFairCount, mallocOk \in BOOLEAN :
        Construct(Standalone, SharedSize, bc, TRUE, mallocOk)

NextFair ==
    \/ FairConstruct
    \/ MTCallAllocate
    \/ MTAllocEnter
    \/ MTAllocPop
    \/ MTCallFree
    \/ MTFreeEnter
    \/ MTFreePush

SpecMTFair == Init /\ [][NextFair]_vars /\ FairThreads

----------------------------------------------------------------------------
(* SpecPair: one client thread on two standalone pools; it may hand a block *)
(* of one pool to free() of the other                                      *)

\* the two Allocator objects
Pair == {1, 2}

\* payload sizes of the two pools
PairSizes == {8, 20}

PairConstruct ==
    \E p \in Pair, bs \in PairSizes, bc \in 1..MaxPairCount, mallocOk \in BOOLEAN :
        Construct(p, bs, bc, TRUE, mallocOk)
PairCallAllocate == \E p \in Pair : CallAllocate(Client, p)
PairAllocEnter == AllocEnter(Client)
PairAllocPop == AllocPop(Client)
PairCallFree ==
    \E p \in Pair : \E ptr \in HeldPtrs(Client) \cup {NULL} : CallFree(Client, p, ptr)
PairFreeEnter == FreeEnter(Client)
PairFreePush == FreePush(Client)

NextPair ==
    \/ PairConstruct
    \/ PairCallAllocate
    \/ PairAllocEnter
    \/ PairAllocPop
    \/ PairCallFree
    \/ PairFreeEnter
    \/ PairFreePush

SpecPair == Init /\ [][NextPair]_vars

----------------------------------------------------------------------------
(* SlabAllocator: the size-class dispatcher *)

\* the payload sizes of the four pools the SlabAllocator constructor makes
SlabClassSize(i) == CASE i = 1 -> 64 [] i = 2 -> 128 [] i = 3 -> 256 [] i = 4 -> 512

\* the sizes clients ask the dispatcher for: within the smallest class,
\* between its payload size and its stride, within the second class, between
\* the payload size and the stride of the largest class, beyond every stride
SlabSizes == {50, 70, 100, 516, 600}

\* SlabAllocator::SlabAllocator: four Allocators, in ascending order of size;
\* failed is the pool whose std::malloc fails, 0 when every one succeeds
RECURSIVE SlabCtorLoop(_, _, _, _)
SlabCtorLoop(i, failed, objs, heap) ==
    IF i > 4 THEN [objs |-> objs, heap |-> heap]
    ELSE LET stride == RawBlockSize(debug, SlabClassSize(i))
             pool0 == [memory |-> NULL, free_list |-> NULL, block_size |-> stride,
                       block_count |-> SlabBlockCount, payload_size |-> SlabClassSize(i)]
             pid == IF debug THEN ThisAddr(i) ELSE 0
             r == CtorLoop(0, CtorLoopBound(SlabBlockCount), BufferAddr(i), stride, pid,
                           heap, NULL)
             o == IF i = failed
                  THEN [m_Initialized |-> FALSE, m_MemoryPool |-> <<pool0>>, m_PoolId |-> 0]
                  ELSE [m_Initialized |-> TRUE,
                        m_MemoryPool |-> <<[pool0 EXCEPT !.memory = BufferAddr(i),
                                                         !.free_list = r.head]>>,
                        m_PoolId |-> pid]
         IN  SlabCtorLoop(i + 1, failed, [objs EXCEPT ![i] = o],
                          IF i = failed THEN heap ELSE r.heap)

SlabConstruct(failed) ==
    /\ Running
    /\ slab = <<>>
    /\ \A p \in AllPools : life[p] = "none"
    /\ LET r == SlabCtorLoop(1, failed, obj, mem)
       IN  /\ obj' = r.objs
           /\ mem' = r.heap
    /\ slab' = <<1, 2, 3, 4>>
    /\ life' = [p \in AllPools |-> "live"]
    /\ ctor' = [p \in AllPools |->
                  [block_size |-> SlabClassSize(p), block_count |-> SlabBlockCount,
                   new_ok |-> TRUE, malloc_ok |-> (p # failed)]]
    /\ fresh' = [p \in AllPools |-> FALSE]
    /\ phase' = [p \in AllPools |-> "off"]
    /\ source' = [p \in AllPools |->
                    Requested(source[p],
                              MallocArg(RawBlockSize(debug, SlabClassSize(p)),
                                        SlabBlockCount))]
    /\ UNCHANGED <<debug, tainted, mutex, pc, call, held, abort_msg, log, last_freed,
                   double_return, misuse>>

\* faulty variant: a pool without a free block is passed over
SlabFits_AndFree(size, p) == size <= block_size(p) /\ MP(p).free_list # NULL

\* faulty variant: the largest class takes every size the others refuse
SlabFits_LargestTakesAll(size, p) == size <= block_size(p) \/ p = 4

\* the test of the dispatcher's loop: if (size <= slab->block_size())
SlabFits(size, p) == size <= block_size(p)

\* for (auto& slab : m_Slabs): the first pool that passes the test, 0 when
\* the loop ends without one
RECURSIVE SlabScan(_, _)
SlabScan(i, size) ==
    IF i > Len(slab) THEN 0
    ELSE IF SlabFits(size, slab[i]) THEN slab[i]
    ELSE SlabScan(i + 1, size)

SelectSlab(size) == SlabScan(1, size)

\* SlabAllocator::allocate(size): forwards to the selected pool's allocate(),
\* or returns nullptr when the loop selects none
SlabAllocate(t, size) ==
    /\ slab # <<>>
    /\ IF SelectSlab(size) = 0
       THEN /\ MayCall(t)
            /\ UNCHANGED vars
       ELSE EnterAllocate(t, SelectSlab(size), size)

\* SlabAllocator::free(ptr, size): forwards to the selected pool's free(ptr),
\* or returns when the loop selects none
SlabFree(t, ptr, size) ==
    /\ slab # <<>>
    /\ IF SelectSlab(size) = 0
       THEN /\ MayCall(t)
            /\ ptr = NULL \/ ~misuse
            /\ misuse' = (misuse \/ ptr # NULL)
            /\ UNCHANGED <<debug, source, tainted, phase, life, ctor, obj, mutex, mem, slab, pc, call, held,
                           abort_msg, log, fresh, last_freed, double_return>>
       ELSE EnterFree(t, SelectSlab(size), ptr, size)

\* the pool whose buffer holds the payload address ptr, 0 when there is none
OwnerOf(ptr) ==
    IF \E p \in AllPools : ptr \in PayloadAddrs(p)
    THEN CHOOSE p \in AllPools : ptr \in PayloadAddrs(p)
    ELSE 0

----------------------------------------------------------------------------
(* SpecSlab: one client thread on the dispatcher *)

\* std::malloc fails for no class, for the smallest or for the largest
SlabDoConstruct == \E failed \in {0, 1, 4} : SlabConstruct(failed)
\* the client stops after a free() that broke the dispatcher's contract
SlabDoAllocate == ~misuse /\ \E size \in SlabSizes : SlabAllocate(Client, size)
SlabDoFree ==
    /\ ~misuse
    /\ \E ptr \in HeldPtrs(Client) \cup {NULL}, size \in SlabSizes :
          SlabFree(Client, ptr, size)
SlabAllocEnter == AllocEnter(Client)
SlabAllocPop == AllocPop(Client)
SlabFreeEnter == FreeEnter(Client)
SlabFreePush == FreePush(Client)

NextSlab ==
    \/ SlabDoConstruct
    \/ SlabDoAllocate
    \/ SlabDoFree
    \/ SlabAllocEnter
    \/ SlabAllocPop
    \/ SlabFreeEnter
    \/ SlabFreePush

SpecSlab == Init /\ [][NextSlab]_vars

----------------------------------------------------------------------------
(* SpecWrap: one client thread on a standalone pool constructed with sizes  *)
(* near the upper end of size_t                                            *)

\* payload sizes handed to the constructor: a small one, one whose stride
\* is half the range of size_t, and two for which sizeof(Block) +
\* payload_size exceeds the range
WideSizes == {8, SizeMod \div 2 - 8, SizeMod - 8, SizeMod - 1}
WideCounts == {1, 2, 3}

WrapConstruct ==
    \E bs \in WideSizes, bc \in WideCounts, mallocOk \in BOOLEAN :
        Construct(Standalone, bs, bc, TRUE, mallocOk)
WrapDestroy == Destroy(Standalone)
WrapCallAllocate ==
    /\ Cardinality(held[Client]) < MaxWrapHeld
    /\ CallAllocate(Client, Standalone)
WrapAllocEnter == AllocEnter(Client)
WrapAllocPop == AllocPop(Client)

NextWrap ==
    \/ WrapConstruct
    \/ WrapDestroy
    \/ WrapCallAllocate
    \/ WrapAllocEnter
    \/ WrapAllocPop

SpecWrap == Init /\ [][NextWrap]_vars

----------------------------------------------------------------------------
(* Properties *)

\* the pool was constructed with valid arguments and obtained its buffer
GotBuffer(p) ==
    /\ ctor[p].block_size > 0
    /\ ctor[p].block_count > 0
    /\ ctor[p].new_ok
    /\ ctor[p].malloc_ok

Ready(p) == life[p] = "live" /\ is_initialized(p) /\ HasPool(p)

\* C1: on a pool constructed with payload_size > 0 and count > 0 that
\* obtained its buffer, the first count allocate() calls return non-empty,
\* pairwise distinct pointers and the call after them returns empty
C1_ExactlyCountSucceed ==
    \A p \in AllPools :
        (life[p] = "live" /\ GotBuffer(p) /\ fresh[p]) =>
            LET n == ctor[p].block_count IN
            /\ \A i \in 1..Len(log[p]) : (i <= n) <=> (log[p][i] # NULL)
            /\ \A i, j \in 1..Len(log[p]) :
                 (i < j /\ j <= n) => log[p][i] # log[p][j]

\* C1 witness: a pool of MaxCount blocks was exhausted by MaxCount calls and
\* the next call returned empty
C1_Witness ==
    /\ life[Standalone] = "live"
    /\ GotBuffer(Standalone)
    /\ ctor[Standalone].block_count = MaxCount
    /\ fresh[Standalone]
    /\ Len(log[Standalone]) = MaxCount + 1
    /\ log[Standalone][MaxCount + 1] = NULL

\* the free list of pool p ends in a null link within block_count blocks
NullTerminated(p) ==
    LET fl == FreeListSeq(p) IN
    /\ Len(fl) <= MP(p).block_count
    /\ IF fl = <<>> THEN MP(p).free_list = NULL
       ELSE Header(mem, fl[Len(fl)]).next = NULL

\* C2: under valid use the free list is acyclic and null-terminated, holds
\* only slots of the pool, none twice, and the free slots and the slots in
\* use are disjoint and together are the count slots
C2_FreeListPartition ==
    \A p \in AllPools :
        (Ready(p) /\ ~misuse) =>
            /\ NullTerminated(p)
            /\ FreeListSet(p) \subseteq Slots(p)
            /\ Cardinality(FreeListSet(p)) = Len(FreeListSeq(p))
            /\ FreeListSet(p) \cap InUse(p) = {}
            /\ FreeListSet(p) \cup InUse(p) = Slots(p)
            /\ Cardinality(Slots(p)) = ctor[p].block_count

\* C2 witness: after allocations and a free, a pool of three blocks has a
\* block in use and a free list of two whose head is the block just freed
C2_Witness ==
    /\ Ready(Standalone)
    /\ ~misuse
    /\ ctor[Standalone].block_count = 3
    /\ Cardinality(InUse(Standalone)) = 1
    /\ Len(FreeListSeq(Standalone)) = 2
    /\ last_freed[Standalone] # NULL
    /\ BlockOf(last_freed[Standalone]) = MP(Standalone).free_list

\* C3: with threads sharing one pool and each freeing only blocks it holds,
\* no address is held by two threads and allocate() never returns a block
\* that is still held
C3_NoSharedBlock ==
    /\ ~double_return
    /\ \A t, u \in Threads : t # u => HeldPtrs(t) \cap HeldPtrs(u) = {}

\* C3 witness: two threads hold a block each while one of them is inside
\* free() and holds the lock
C3_Witness ==
    /\ Ready(Standalone)
    /\ \A t \in Threads : t <= 2 => HeldPtrs(t) # {}
    /\ \E t \in Threads : pc[t] = "free_push" /\ mutex[Standalone] = t

\* thread t completes a call in this step
Returns(t) == pc[t] # "idle" /\ pc'[t] = "idle"

\* C4: when free(p) pushed p and the next operation completed on the pool is
\* allocate(), that allocate() returns p
C4_LifoReuse ==
    [][\A t \in Threads :
         (/\ call[t].op = "allocate"
          /\ last_freed[call[t].pool] # NULL
          /\ Returns(t))
         => /\ pc[t] = "alloc_pop"
            /\ PayloadOf(call[t].block) = last_freed[call[t].pool]
            /\ last_freed[call[t].pool] \in {h.ptr : h \in held'[t]}]_vars

\* C4 witness: in a pool of several blocks with another block in use,
\* allocate() took the block the preceding free() pushed
C4_Witness ==
    /\ Ready(Standalone)
    /\ ctor[Standalone].block_count >= 2
    /\ pc[Client] = "alloc_pop"
    /\ last_freed[Standalone] # NULL
    /\ PayloadOf(call[Client].block) = last_freed[Standalone]
    /\ InUse(Standalone) # {}
    /\ Len(FreeListSeq(Standalone)) >= 2

\* the smallest size class whose payload size holds size bytes, 0 when
\* there is none
FirstFit(size) ==
    IF \E i \in 1..4 : size <= SlabClassSize(i)
    THEN CHOOSE i \in 1..4 :
             /\ size <= SlabClassSize(i)
             /\ \A j \in 1..4 : size <= SlabClassSize(j) => i <= j
    ELSE 0

\* C5: the dispatcher forwards a request to the first class whose payload
\* capacity is at least the requested size, so every block it returns has a
\* payload of at least the requested size
C5_ServedByFittingClass ==
    \A t \in Threads :
        /\ (call[t].op = "allocate" /\ call[t].size > 0)
              => call[t].pool = FirstFit(call[t].size)
        /\ \A h \in held[t] :
              h.size > 0 => /\ OwnerOf(h.ptr) # 0
                            /\ h.size <= ctor[OwnerOf(h.ptr)].block_size

\* C6: a request larger than the payload of the largest class returns empty
\* and reaches no pool
C6_OversizeReturnsEmpty ==
    \A t \in Threads :
        /\ call[t].op = "allocate" => call[t].size <= SlabClassSize(4)
        /\ \A h \in held[t] : h.size <= SlabClassSize(4)

\* thread t is about to run the checks of free() on a ready pool with a
\* pointer that is not the payload address of one of its slots
FreeOfNonSlot(t) ==
    /\ pc[t] = "free_lock"
    /\ Ready(call[t].pool)
    /\ call[t].ptr \notin PayloadAddrs(call[t].pool)

\* the diagnostics of free()
FreeMessages ==
    {"Invalid free (pointer not from pool)", "Invalid free (not block aligned)",
     "Invalid free (wrong allocator)", "Double free error",
     "Memory corruption detected (canary smashed)"}

\* thread t runs the checks of free() in this step: it leaves the lock
\* statement, or the process aborts with a diagnostic of free()
RunsFreeChecks(t) ==
    /\ pc[t] = "free_lock"
    /\ (pc'[t] # pc[t] \/ (abort_msg' # abort_msg /\ abort_msg' \in FreeMessages))

\* C7: free() of a non-null pointer that is not the payload address of a
\* slot aborts on the range check or on the slot-boundary check and leaves
\* the free list as it was
C7_InvalidFreeAborts ==
    [][\A t \in Threads :
         (FreeOfNonSlot(t) /\ RunsFreeChecks(t))
         => /\ abort_msg' \in {"Invalid free (pointer not from pool)",
                               "Invalid free (not block aligned)"}
            /\ mem' = mem
            /\ obj' = obj]_vars

\* C7 witness: the process aborted on free(p + 1) for a block p in use
C7_Witness ==
    /\ abort_msg = "Invalid free (not block aligned)"
    /\ call[Client].ptr - 1 \in HeldPtrs(Client)
    /\ Ready(Standalone)

\* free() accepted a block that is on the free list
DoubleFreeAccepted ==
    \E t \in Threads :
        /\ pc[t] = "free_push"
        /\ call[t].block \in FreeListSet(call[t].pool)

\* thread t is about to run the checks of free() on a ready pool with a
\* block that is on the free list
FreeOfFreeBlock(t) ==
    /\ pc[t] = "free_lock"
    /\ Ready(call[t].pool)
    /\ BlockOf(call[t].ptr) \in FreeListSet(call[t].pool)

\* C8 as stated: a second free() aborts in debug builds, and in no build does
\* a double free lead to one address being handed to two holders
C8_DoubleFreeNeverAliases ==
    /\ debug => ~DoubleFreeAccepted
    /\ ~double_return

\* C8 amended: in debug builds free() of a block that is already free aborts
\* with "Double free error" before touching the free list, and no address
\* is ever handed out while it is held
C8_DebugDoubleFreeAborts ==
    /\ [][\A t \in Threads :
            (debug /\ FreeOfFreeBlock(t) /\ RunsFreeChecks(t))
            => /\ abort_msg' = "Double free error"
               /\ mem' = mem
               /\ obj' = obj]_vars
    /\ [](debug => (~DoubleFreeAccepted /\ ~double_return))

\* C8 witness: a debug build aborted on the second free() of a block
C8_Witness ==
    /\ debug
    /\ abort_msg = "Double free error"
    /\ BlockOf(call[Client].ptr) \in FreeListSet(Standalone)
    /\ last_freed[Standalone] = call[Client].ptr

\* C9: construction ends ready exactly when payload_size > 0, count > 0 and
\* the buffer was obtained; on a zero argument or a failed buffer request it
\* completes without raising and leaves the pool unready with no free block
C9_ReadyIffValid ==
    \A p \in AllPools :
        life[p] \in {"live", "threw"} =>
            /\ (life[p] = "live" /\ is_initialized(p)) <=> GotBuffer(p)
            /\ (\/ ctor[p].block_size = 0
                \/ ctor[p].block_count = 0
                \/ (ctor[p].new_ok /\ ~ctor[p].malloc_ok))
               => /\ life[p] = "live"
                  /\ ~is_initialized(p)
                  /\ FreeListSet(p) = {}

\* C9 witness: a pool with valid arguments whose buffer request failed, after
\* an allocate() on it returned
C9_Witness ==
    /\ life[Standalone] = "live"
    /\ ctor[Standalone].block_size > 0
    /\ ctor[Standalone].block_count > 0
    /\ ctor[Standalone].new_ok
    /\ ~ctor[Standalone].malloc_ok
    /\ ~is_initialized(Standalone)
    /\ Len(log[Standalone]) = 1

\* construction of pool p failed: a zero argument, or no buffer
ConstructionFailed(p) ==
    /\ life[p] = "live"
    /\ (ctor[p].block_size = 0 \/ ctor[p].block_count = 0 \/ ~ctor[p].malloc_ok)

\* C10: on a pool whose construction failed no operation faults or aborts,
\* allocate() hands out nothing, free() changes nothing and the pool stays
\* unready
C10_FailedPoolIsSafe ==
    \A p \in AllPools :
        ConstructionFailed(p) =>
            /\ abort_msg = NoAbort
            /\ ~is_initialized(p)
            /\ FreeListSet(p) = {}
            /\ \A t \in Threads : HeldPtrs(t) = {}
            /\ \A t \in Threads : pc[t] \in {"idle", "alloc_lock", "free_lock"}

\* C11: every pointer allocate() returns is a multiple of the pointer
\* alignment, because the buffer base, the stride and the header size are
\* multiples of alignof(Block)
C11_PointersAligned ==
    /\ SizeofBlock(debug) % AlignofBlock = 0
    /\ \A p \in AllPools :
          Ready(p) =>
              /\ MP(p).memory % AlignofBlock = 0
              /\ MP(p).block_size % AlignofBlock = 0
    /\ \A t \in Threads : \A ptr \in HeldPtrs(t) : ptr % AlignofBlock = 0

\* C11 witness: a pool of 1-byte payloads, whose raw block size is not a
\* multiple of the alignment, handed out a slot other than the first
C11_Witness ==
    /\ Ready(Standalone)
    /\ ctor[Standalone].block_size = 1
    /\ \E ptr \in HeldPtrs(Client) :
          /\ ptr \in PayloadAddrs(Standalone)
          /\ ptr # PayloadOf(MP(Standalone).memory)

\* thread t is inside free(p, s) of the dispatcher with a block p it holds
\* and the size s it was allocated with
FreeWithOwnSize(t) ==
    /\ call[t].op = "free"
    /\ call[t].size > 0
    /\ [ptr |-> call[t].ptr, size |-> call[t].size] \in held[t]

C13_ExhaustionRecoverable ==
    /\ [][\A t \in Threads :
            (/\ call[t].op = "allocate"
             /\ Returns(t)
             /\ Ready(call[t].pool)
             /\ ~misuse)
            => /\ (pc[t] = "alloc_lock") <=> (InUse(call[t].pool) = Slots(call[t].pool))
               /\ (pc[t] = "alloc_pop")
                     => PayloadOf(call[t].block) \in {h.ptr : h \in held'[t]}]_vars
    /\ [](\A p \in AllPools :
            (Ready(p) /\ ~misuse) =>
                /\ phase[p] # "broken"
                /\ (phase[p] = "drained" /\ LockFree(p))
                      => Len(FreeListSeq(p)) = ctor[p].block_count - Cardinality(InUse(p)))

\* C13 witness: a pool of MaxCount blocks was exhausted, every outstanding
\* block was freed, and MaxCount allocate() calls in a row succeeded again
C13_Witness ==
    /\ Ready(Standalone)
    /\ ~misuse
    /\ ctor[Standalone].block_count = MaxCount
    /\ phase[Standalone] = "drained"
    /\ pc[Client] = "idle"
    /\ InUse(Standalone) = Slots(Standalone)

\* both canary words of the block at address b hold CANARY_VALUE
CanariesIntact(heap, b) ==
    /\ Header(heap, b).canary_front = CANARY_VALUE
    /\ Header(heap, b).rear = CANARY_VALUE

\* thread t is about to run the checks of free() on a ready pool with a
\* block of the pool that it holds
FreeOfHeldBlock(t) ==
    /\ pc[t] = "free_lock"
    /\ Ready(call[t].pool)
    /\ call[t].ptr \in HeldPtrs(t) \cap PayloadAddrs(call[t].pool)

\* C14: in debug builds free(p) of an in-use block with a canary that no
\* longer holds CANARY_VALUE aborts and leaves the free list alone;
\* allocate() stamps both canaries of the block it returns, so an in-use
\* block nobody wrote outside of since then has both canaries intact and its
\* free() passes the canary check
C14_CanaryChecked ==
    /\ [][\A t \in Threads :
            /\ (/\ debug
                /\ FreeOfHeldBlock(t)
                /\ ~CanariesIntact(mem, BlockOf(call[t].ptr))
                /\ RunsFreeChecks(t))
               => /\ abort_msg' = "Memory corruption detected (canary smashed)"
                  /\ mem' = mem
                  /\ obj' = obj
                  /\ pc'[t] = "free_lock"
            /\ (/\ debug
                /\ FreeOfHeldBlock(t)
                /\ BlockOf(call[t].ptr) \notin tainted
                /\ RunsFreeChecks(t))
               => abort_msg' # "Memory corruption detected (canary smashed)"
            /\ (debug /\ pc[t] = "alloc_pop" /\ Returns(t))
               => CanariesIntact(mem', call[t].block)]_vars
    /\ [](debug =>
            \A p \in AllPools : \A b \in InUse(p) :
                (Ready(p) /\ b \notin tainted) => CanariesIntact(mem, b))

\* C14 witness: free(p) aborted on the rear canary of a block in use whose
\* front canary is intact
C14_Witness ==
    /\ debug
    /\ abort_msg = "Memory corruption detected (canary smashed)"
    /\ call[Client].ptr \in HeldPtrs(Client)
    /\ Header(mem, BlockOf(call[Client].ptr)).canary_front = CANARY_VALUE
    /\ Header(mem, BlockOf(call[Client].ptr)).rear = Smashed

\* thread t is about to run the checks of B.free(p) on a ready pool B with a
\* block p of another ready pool A
FreeOfForeignBlock(t) ==
    /\ pc[t] = "free_lock"
    /\ Ready(call[t].pool)
    /\ \E a \in AllPools :
          /\ a # call[t].pool
          /\ Ready(a)
          /\ call[t].ptr \in PayloadAddrs(a)

\* C15: B.free(p) with a block p of another ready pool A aborts, and the
\* free lists of A and B stay as they were
C15_CrossPoolFreeAborts ==
    [][\A t \in Threads :
         (FreeOfForeignBlock(t) /\ RunsFreeChecks(t))
         => /\ abort_msg' \in {"Invalid free (pointer not from pool)",
                               "Invalid free (wrong allocator)"}
            /\ mem' = mem
            /\ obj' = obj
            /\ pc'[t] = "free_lock"]_vars

\* C15 witness: the process aborted in free() of one pool on a block the
\* client holds from the other pool
C15_Witness ==
    /\ abort_msg = "Invalid free (pointer not from pool)"
    /\ \A p \in Pair : Ready(p)
    /\ call[Client].ptr \in HeldPtrs(Client)
    /\ call[Client].ptr \notin PayloadAddrs(call[Client].pool)
    /\ \E a \in Pair : call[Client].ptr \in PayloadAddrs(a)

\* thread t is inside the free(p) that slab.free(p, s2) forwarded to a pool
\* other than the one that owns p, and is about to run its checks
FreeForwardedToOther(t) ==
    /\ pc[t] = "free_lock"
    /\ call[t].size > 0
    /\ OwnerOf(call[t].ptr) # 0
    /\ OwnerOf(call[t].ptr) # call[t].pool

\* no free list holds a block of another pool
NoForeignBlockListed ==
    \A p \in AllPools : HasPool(p) => FreeListSet(p) \subseteq Slots(p)

\* C16 as stated: slab.free(p, s2) with a size that selects another pool than
\* the owner of p always ends in the selected pool's fatal check, in both
\* builds, and p is never pushed onto a list of a pool that does not own it
C16_WrongSizeFreeAborts ==
    /\ [][\A t \in Threads :
            (FreeForwardedToOther(t) /\ RunsFreeChecks(t))
            => /\ abort_msg' \in {"Invalid free (pointer not from pool)",
                                  "Invalid free (wrong allocator)"}
               /\ mem' = mem
               /\ obj' = obj]_vars
    /\ []NoForeignBlockListed

\* C16 amended: when the selected pool is ready the call aborts on its range
\* check in both builds; when the selected pool is unready the call returns
\* without effect and without abort; in neither case is p pushed onto a
\* list of a pool that does not own it
C16_WrongSizeFreeAbortsIfReady ==
    /\ [][\A t \in Threads :
            (FreeForwardedToOther(t) /\ RunsFreeChecks(t))
            => /\ IF Ready(call[t].pool)
                  THEN abort_msg' = "Invalid free (pointer not from pool)"
                  ELSE abort_msg' = NoAbort /\ pc'[t] = "idle"
               /\ mem' = mem
               /\ obj' = obj
               /\ held' = held]_vars
    /\ []NoForeignBlockListed

\* C16 witness: free(p, 50) of a block p of the 128-byte pool aborted in the
\* 64-byte pool
C16_Witness ==
    /\ abort_msg = "Invalid free (pointer not from pool)"
    /\ call[Client].size = 50
    /\ call[Client].pool = 1
    /\ call[Client].ptr \in HeldPtrs(Client)
    /\ OwnerOf(call[Client].ptr) = 2

\* the step leaves the free-list heads, every block and the blocks in use
\* as they were and does not abort
NothingTouched ==
    /\ obj' = obj
    /\ mem' = mem
    /\ held' = held
    /\ abort_msg' = abort_msg

\* C17: free(ptr) is a no-op when ptr is null or the pool is unready: a null
\* ptr returns before the lock, an unready pool returns right after it
\* whatever ptr is; free-list head, block links and blocks in use are
\* unchanged and nothing aborts
C17_FreeNoOp ==
    /\ [][\A t \in Threads :
            /\ (pc[t] = "free_lock" /\ ~Ready(call[t].pool) /\ RunsFreeChecks(t))
               => /\ pc'[t] = "idle"
                  /\ NothingTouched
                  /\ abort_msg' = NoAbort
            /\ (pc[t] = "idle" /\ pc'[t] = "idle" /\ fresh' # fresh) => NothingTouched]_vars
    /\ [](\A t \in Threads : call[t].op = "free" => call[t].ptr # NULL)

\* C17 witness: on a pool whose buffer request failed, a free() of a non-null
\* pointer the pool never handed out has returned and the process runs on
C17_Witness ==
    /\ life[Standalone] = "live"
    /\ ctor[Standalone].block_size > 0
    /\ ctor[Standalone].block_count > 0
    /\ ctor[Standalone].new_ok
    /\ ~ctor[Standalone].malloc_ok
    /\ misuse
    /\ pc[Client] = "idle"
    /\ Running

\* every thread holds at most one block, and thread t, inside allocate(),
\* holds none: the threads follow p = allocate(); free(p)
OneBlockEach(t) ==
    /\ HeldPtrs(t) = {}
    /\ \A u \in Threads : Cardinality(HeldPtrs(u)) <= 1

\* C18: with the threads sharing one pool of at least as many blocks as
\* there are threads and each holding at most one block at a time, no
\* allocate() returns empty, in any interleaving
C18_NeverEmptyForWorkers ==
    [][\A t \in Threads :
         (/\ call[t].op = "allocate"
          /\ Returns(t)
          /\ Ready(call[t].pool)
          /\ ctor[call[t].pool].block_count >= NumThreads
          /\ OneBlockEach(t))
         => /\ pc[t] = "alloc_pop"
            /\ PayloadOf(call[t].block) \in {h.ptr : h \in held'[t]}]_vars

\* C18 witness: a pool of NumThreads blocks, every thread holds one block and
\* no allocate() has returned empty
C18_Witness ==
    /\ Ready(Standalone)
    /\ ctor[Standalone].block_count = NumThreads
    /\ \A t \in Threads : Cardinality(HeldPtrs(t)) = 1
    /\ InUse(Standalone) = Slots(Standalone)
    /\ phase[Standalone] = "none"

\* the diagnostics of the abort paths of allocate() and free()
AbortMessages == FreeMessages \cup {"Allocator corruption detected"}

\* in a debug build the free flag of every block of pool p is set exactly
\* when the block is on the free list
FreeFlagsMatchList(p) ==
    \A b \in Slots(p) : Header(mem, b).is_free <=> b \in FreeListSet(p)

\* C19: under valid use no abort path of allocate() or free() is taken: a
\* free() of a block in use passes every check and a popped block is marked
\* free; in debug builds, whenever no call is inside the locked section, a
\* block's free flag is set exactly when the block is on the free list
C19_NoAbortUnderValidUse ==
    /\ [][\A t \in Threads :
            /\ (~misuse /\ FreeOfHeldBlock(t) /\ RunsFreeChecks(t))
               => pc'[t] = "free_push" /\ abort_msg' = NoAbort
            /\ (~misuse /\ pc[t] = "alloc_pop" /\ Ready(call[t].pool))
               => ~PoppedNotFree(mem, call[t].block)]_vars
    /\ [](~misuse =>
            /\ abort_msg \notin AbortMessages
            /\ \A p \in AllPools :
                  (debug /\ Ready(p) /\ LockFree(p)) => FreeFlagsMatchList(p))

\* C19 witness: a debug build, after an exhaustion and frees under valid use:
\* one block in use with its flag clear, the others on the free list with
\* their flags set
C19_Witness ==
    /\ debug
    /\ ~misuse
    /\ Ready(Standalone)
    /\ pc[Client] = "idle"
    /\ phase[Standalone] = "exhausted"
    /\ Cardinality(InUse(Standalone)) = 1
    /\ Cardinality(FreeListSet(Standalone)) >= 2
    /\ \A b \in InUse(Standalone) : ~Header(mem, b).is_free
    /\ \A b \in FreeListSet(Standalone) : Header(mem, b).is_free

\* the first pool, in the order of m_Slabs, whose block_size() is at least
\* size, whether or not it has a free block; 0 when there is none
FirstByBlockSize(size) ==
    LET fits == {i \in 1..Len(slab) : size <= block_size(slab[i])}
    IN  IF fits = {} THEN 0
        ELSE slab[CHOOSE i \in fits : \A j \in fits : i <= j]

\* C20: the dispatcher's allocate(n) is the allocate() of the one pool it
\* selects: when that pool is exhausted the call returns empty although
\* larger classes have free blocks, a block it returns is a block of that
\* pool, and no other pool changes
C20_NoFallThrough ==
    [][\A t \in Threads :
         (call[t].op = "allocate" /\ call[t].size > 0 /\ Returns(t))
         => /\ call[t].pool = FirstByBlockSize(call[t].size)
            /\ \A q \in AllPools : q # call[t].pool => obj'[q] = obj[q]
            /\ \A b \in DOMAIN mem : b \notin Slots(call[t].pool) => mem'[b] = mem[b]
            /\ (pc[t] = "alloc_lock")
                  => /\ AllocReturnsEmpty(call[t].pool)
                     /\ held' = held
                     /\ obj' = obj
                     /\ mem' = mem
            /\ (pc[t] = "alloc_pop")
                  => held'[t] \ held[t] \subseteq
                        {[ptr |-> a, size |-> call[t].size] :
                            a \in PayloadAddrs(call[t].pool)}]_vars

\* C20 witness: allocate(50) is inside the 64-byte pool, which is ready and
\* has no free block, while the 128-byte pool has one
C20_Witness ==
    /\ slab # <<>>
    /\ pc[Client] = "alloc_lock"
    /\ call[Client].size = 50
    /\ call[Client].pool = 1
    /\ Ready(1)
    /\ FreeListSet(1) = {}
    /\ FreeListSet(2) # {}

\* every pool of the dispatcher is ready
AllClassesReady == slab # <<>> /\ \A p \in AllPools : Ready(p)

\* thread t called SlabAllocator::free(ptr, size) with a non-null ptr and the
\* loop ended without selecting a pool: the call returns in this step
FreeSelectsNone(t) ==
    /\ slab # <<>>
    /\ pc[t] = "idle"
    /\ pc'[t] = "idle"
    /\ ~misuse
    /\ misuse'

\* C26: SlabAllocator::free(ptr, size) with a size above every pool's
\* block_size() returns without forwarding: no pool receives the call, the
\* process does not abort, no pool and no block changes, and the block
\* stays in use, off every free list
C26_UnselectedFreeReturns ==
    /\ [][\A t \in Threads :
            FreeSelectsNone(t)
            => /\ obj' = obj
               /\ mem' = mem
               /\ mutex' = mutex
               /\ held' = held
               /\ abort_msg' = NoAbort]_vars
    /\ [](\A t \in Threads :
            call[t].op = "free"
            => /\ FirstByBlockSize(call[t].size) # 0
               /\ call[t].pool = FirstByBlockSize(call[t].size))
    /\ []((AllClassesReady /\ misuse /\ Running /\ pc[Client] = "idle")
            => \A h \in held[Client] :
                  /\ OwnerOf(h.ptr) # 0
                  /\ BlockOf(h.ptr) \notin FreeListSet(OwnerOf(h.ptr)))

\* C26 witness: with every class ready, the client holds a block of the
\* 64-byte class after it passed a block to free() with a size no class
\* takes; the call has returned, the process runs, the 64-byte class has
\* no free block
C26_Witness ==
    /\ AllClassesReady
    /\ misuse
    /\ Running
    /\ pc[Client] = "idle"
    /\ \E h \in held[Client] : h.size = 50 /\ OwnerOf(h.ptr) = 1
    /\ FreeListSet(1) = {}

\* the fields of pool p that construction fixes: the ready flag, the stride,
\* the count and the buffer
Fixed(p) ==
    IF HasPool(p)
    THEN <<obj[p].m_Initialized, MP(p).block_size, MP(p).block_count, MP(p).memory>>
    ELSE <<obj[p].m_Initialized>>

\* C24: no step of allocate(), free(), is_initialized() or block_size()
\* changes the ready flag, the stride, the count or the buffer of a live
\* pool; a ready pool stops being ready only by destruction, and a pool
\* whose construction failed never becomes ready
C24_ReadyIsStable ==
    /\ [][\A p \in AllPools :
            /\ (life[p] = "live" /\ life'[p] = "live") => Fixed(p)' = Fixed(p)
            /\ (Ready(p) /\ ~Ready(p)') => life'[p] = "destroyed"
            /\ (life[p] = "live" /\ ~Ready(p)) => ~Ready(p)']_vars
    /\ [](\A p \in AllPools :
            Ready(p) => /\ MP(p).block_size = RawBlockSize(debug, ctor[p].block_size)
                        /\ MP(p).block_count = ctor[p].block_count
                        /\ MP(p).memory = BufferAddr(p))

\* C24 witness: a ready pool of several blocks after allocate() and free()
\* completed on it, one block still in use, a free() in progress
C24_Witness ==
    /\ Ready(Standalone)
    /\ ctor[Standalone].block_count >= 2
    /\ InUse(Standalone) # {}
    /\ last_freed[Standalone] # NULL
    /\ pc[Client] = "free_push"

\* C25: the buffer of a pool is requested from the memory source at most
\* once, by the constructor; it is released only by the destructor, once if
\* the constructor obtained it (also while blocks are in use) and never
\* otherwise; no step of allocate() or free() releases or requests it
C25_BufferOnceAndOnce ==
    /\ [][\A p \in AllPools :
            /\ source'[p].requests # source[p].requests => life[p] = "none"
            /\ source'[p].releases # source[p].releases
                  => /\ life[p] = "live"
                     /\ life'[p] = "destroyed"
                     /\ \A t \in Threads : pc[t] = "idle" /\ pc'[t] = "idle"]_vars
    /\ [](\A p \in AllPools :
            /\ source[p].requests <= 1
            /\ (GotBuffer(p) /\ life[p] \in {"live", "destroyed"})
                  => source[p].requests = 1
            /\ life[p] # "destroyed" => source[p].releases = 0
            /\ life[p] = "destroyed"
                  => source[p].releases = (IF GotBuffer(p) THEN 1 ELSE 0))

\* C25 witness: the pool was destroyed while the client held a block of it,
\* after one request and with one release of the buffer
C25_Witness ==
    /\ life[Standalone] = "destroyed"
    /\ GotBuffer(Standalone)
    /\ held[Client] # {}
    /\ source[Standalone].requests = 1
    /\ source[Standalone].releases = 1

\* header, payload and (debug) rear canary word, rounded up to the alignment
\* of Block, as a number: the stride when nothing wraps
ExactStride(dbg, payload_size) ==
    LET raw == SizeofBlock(dbg) + payload_size + (IF dbg THEN CanaryWordSize ELSE 0)
    IN  ((raw + AlignofBlock - 1) \div AlignofBlock) * AlignofBlock

\* C21: a ready pool has the stride header + payload_size (+ rear canary)
\* rounded up, its buffer was requested with stride * count bytes, and every
\* slot lies inside the buffer
C21_BufferHoldsCountSlots ==
    \A p \in AllPools :
        Ready(p) =>
            LET stride == MP(p).block_size
                start == MP(p).memory
                bytes == source[p].bytes
            IN  /\ stride = ExactStride(debug, ctor[p].block_size)
                /\ bytes = stride * MP(p).block_count
                /\ \A b \in Slots(p) \cup FreeListSet(p) :
                      start <= b /\ b + stride <= start + bytes

\* C22: in a ready pool the payload region of every slot, payload_size bytes
\* from the address allocate() returns, starts after the slot's header, ends
\* before the slot's rear canary word (debug) and within its stride, and
\* meets no other slot
C22_PayloadInsideSlot ==
    \A p \in AllPools :
        Ready(p) =>
            \A b \in Slots(p) :
                LET lo == PayloadOf(b)
                    hi == lo + ctor[p].block_size
                    stride == MP(p).block_size
                IN  /\ b + SizeofBlock(debug) <= lo
                    /\ hi <= b + stride - (IF debug THEN CanaryWordSize ELSE 0)
                    /\ \A c \in Slots(p) \ {b} : hi <= c \/ c + stride <= lo

\* thread t is inside allocate() or free()
InCall(t) == pc[t] # "idle"

====
